---- MODULE Spec2Model ----
(***************************************************************************)
(* The data store of the educational notes platform, seen at its boundary: *)
(* the four tables of the migration, their constraints, the row-level      *)
(* security policies and the provisioning trigger, driven by the requests  *)
(* a client of the store can send (the application's screens send a subset *)
(* of them).                                                               *)
(*                                                                         *)
(* The specifications share the state:                                     *)
(*   Spec          accounts: provisioning, account requests, all queries;  *)
(*                 the content is the migration's sample data;             *)
(*   SpecOutsider  provisioning, and every request of the requesters that  *)
(*                 have no Account row;                                    *)
(*   SpecContent   the content requests of an administrator and a member;  *)
(*   SpecApp       one browser session walking through every screen of the *)
(*                 application, any request of which may fail;             *)
(*   SpecAppLive   SpecApp, where every request is answered in the end;    *)
(*   SpecAdmins    two administrators on the Subjects and Content tabs;    *)
(*   SpecToggles   two administrators on the Users tab.                    *)
(***************************************************************************)
EXTENDS Integers, FiniteSets, Sequences, TLC

\* ---------------------------------------------------------------- bounds
MaxUsers == 2     \* identities that may authenticate
MaxRows == 5      \* content rows ever created (the sample data takes four)
MaxWrites == 1    \* writes a browser session submits

Ids == 1..MaxUsers          \* auth.users.id; identity i signs up with email i
Anon == 0                   \* a request that carries no session
Requesters == Ids \cup {Anon}
Emails == Ids
Cast == {1, 2}              \* the two accounts of the README, and their browser sessions
NoRow == 0                  \* an id that no row of a table has
Titles == {"Calculus Fundamentals"}
PdfUrls == {"https://example.com/calculus.pdf"}   \* pdf_url of the first sample note
\* the name and description a request on subjects carries: those of the first
\* two sample subjects
SubjectForms ==
  {[name |-> "Mathematics", description |-> "Advanced mathematical concepts and problem solving"],
   [name |-> "Physics", description |-> "Classical and modern physics principles"]}

VARIABLES
  authUsers,    \* auth.users: the identities that have authenticated
  users,        \* public.users: id -> [email, access, is_admin]
  subjects,     \* public.subjects: id -> [name, description]
  notes,        \* public.notes: id -> [subject_id, title]
  videos,       \* public.videos: id -> [subject_id, title]
  nextId,       \* gen_random_uuid() never repeats: ids are handed out in order
  resp,         \* the last request and what the store answered
  pdfs,         \* storage bucket 'pdfs': the paths of the files it holds
  app           \* the open browser sessions: session -> state of its screens

vars == <<authUsers, users, subjects, notes, videos, nextId, resp, pdfs, app>>
store == <<authUsers, users, subjects, notes, videos, nextId, resp>>
content == <<subjects, notes, videos, nextId>>
accounts == <<authUsers, users>>

\* ---------------------------------------------------------------- helpers
Put(f, k, v) == [x \in DOMAIN f \cup {k} |-> IF x = k THEN v ELSE f[x]]
Drop(f, ks) == [x \in DOMAIN f \ ks |-> f[x]]

\* ---------------------------------------------------------------- row-level security
RLSDisabled == FALSE
RLSEnabled == TRUE

AuthUid(r) == r
RoleAuthenticated(r) == r \in authUsers

AccountExists(r) == \E id \in DOMAIN users : id = AuthUid(r)
IsAdminExists(r) == \E id \in DOMAIN users : id = AuthUid(r) /\ users[id].is_admin = TRUE
HasAccessExists(r) == \E id \in DOMAIN users : id = AuthUid(r) /\ users[id].access = TRUE

\* policies on users
UsersCanReadAnyData(r, id) == RoleAuthenticated(r)
UsersCanReadOwnData(r, id) == RoleAuthenticated(r) /\ AuthUid(r) = id
UsersCanUpdateOwnData(r, id) == RoleAuthenticated(r) /\ AuthUid(r) = id
AdminsCanReadAllUsers(r) == RoleAuthenticated(r) /\ IsAdminExists(r)
AdminsCanUpdateAllUsers(r) == RoleAuthenticated(r) /\ IsAdminExists(r)
EnableInsertForServiceRole(r) == FALSE
\* created by the earlier migration for the role authenticated; the later
\* migration drops the policies it recreates and not this one
EnableInsertForAuthenticatedUsersOnly(r, id) == RoleAuthenticated(r) /\ AuthUid(r) = id
\* policies on subjects, notes and videos
AccessCanReadSubjects(r) == RoleAuthenticated(r) /\ HasAccessExists(r)
AuthenticatedCanReadSubjects(r) == RoleAuthenticated(r)
AccessCanManage(r) == RoleAuthenticated(r) /\ HasAccessExists(r)
AdminsCanManage(r) == RoleAuthenticated(r) /\ IsAdminExists(r)
AuthenticatedCanRead(r) == RoleAuthenticated(r)
AdminsOnlyCanRead(r) == RoleAuthenticated(r) /\ IsAdminExists(r)
UsersWithAccessCanRead(r) == RoleAuthenticated(r) /\ HasAccessExists(r)

\* a command passes when row security is off or one of its policies passes
UsersSelect(r, id) == ~RLSEnabled \/ UsersCanReadOwnData(r, id) \/ AdminsCanReadAllUsers(r)
UsersUpdate(r, id) == ~RLSEnabled \/ UsersCanUpdateOwnData(r, id) \/ AdminsCanUpdateAllUsers(r)
UsersInsert(r, id) ==
  ~RLSEnabled \/ EnableInsertForServiceRole(r) \/ EnableInsertForAuthenticatedUsersOnly(r, id)
AdminsCanDeleteUsers(r, id) == ~RLSEnabled \/ (RoleAuthenticated(r) /\ IsAdminExists(r))
UsersDelete(r, id) == ~RLSEnabled
SubjectsSelect(r) == ~RLSEnabled \/ AuthenticatedCanReadSubjects(r) \/ AdminsCanManage(r)
SubjectsWrite(r) == ~RLSEnabled \/ AdminsCanManage(r)
NotesSelect(r) == ~RLSEnabled \/ UsersWithAccessCanRead(r) \/ AdminsCanManage(r)
NotesWrite(r) == ~RLSEnabled \/ AdminsCanManage(r)
VideosSelect(r) == ~RLSEnabled \/ UsersWithAccessCanRead(r) \/ AdminsCanManage(r)
VideosWrite(r) == ~RLSEnabled \/ AdminsCanManage(r)

\* ---------------------------------------------------------------- queries
SubjectName(r, s) == IF s \in DOMAIN subjects /\ SubjectsSelect(r) THEN subjects[s].name ELSE "null"

SelectUsersRows(r) ==
  {[id |-> id, email |-> users[id].email, access |-> users[id].access,
    is_admin |-> users[id].is_admin] : id \in {i \in DOMAIN users : UsersSelect(r, i)}}
SelectSubjectsRows(r) ==
  {[id |-> s, name |-> subjects[s].name, description |-> subjects[s].description] :
     s \in {x \in DOMAIN subjects : SubjectsSelect(r)}}
SelectNotesRows(r) ==
  {[id |-> n, subject_id |-> notes[n].subject_id, title |-> notes[n].title,
    pdf_url |-> notes[n].pdf_url,
    subjects |-> SubjectName(r, notes[n].subject_id)] : n \in {x \in DOMAIN notes : NotesSelect(r)}}
SelectVideosRows(r) ==
  {[id |-> v, subject_id |-> videos[v].subject_id, title |-> videos[v].title,
    subjects |-> SubjectName(r, videos[v].subject_id)] : v \in {x \in DOMAIN videos : VideosSelect(r)}}

\* the record of a request: who asked, for what, on which row, and the answer
\* (ok: the statement took effect; rows: the rows returned, or the ids removed)
Answer(op, r, tgt, ok, rows) ==
  [op |-> op, by |-> r, tgt |-> tgt, col |-> "", val |-> FALSE, ok |-> ok, rows |-> rows]

\* ---------------------------------------------------------------- state of a browser session
\* useAuth().user: the profile of the signed-in account, or none
NoUser == [id |-> NoRow, access |-> FALSE, is_admin |-> FALSE]
\* editingSubject: null, or the subject under edit (no id: a new subject)
NoForm == [open |-> FALSE, id |-> NoRow, name |-> "", description |-> ""]
\* newNote and newVideo as useState creates them
NoNote == [title |-> "", file |-> ""]
NoVideo == [title |-> "", youtube_url |-> ""]
\* the arguments a running handler was called with
NoArg == [id |-> NoRow, flag |-> FALSE]
\* the two texts of Login's message
CheckEmail == "Check your email for the magic link!"
ErrorSending == "Error sending magic link. Please try again."

\* the application as it loads without a session: Login, nothing typed
AppLogin ==
  [authLoading |-> FALSE,     \* useAuth().loading
   session |-> FALSE,         \* useAuth().session is not null
   path |-> "/",              \* location.pathname
   screen |-> "Login",        \* the component on screen
   pc |-> "idle",             \* the handler that awaits an answer, or idle
   arg |-> NoArg,
   user |-> NoUser,
   loading |-> FALSE,         \* the loading flag of the component on screen
   uploadingFile |-> FALSE,
   pdfUrl |-> "",             \* const pdfUrl of a running handleAddNote
   email |-> "",
   message |-> "",
   users |-> {},              \* the lists the component on screen holds
   subjects |-> {},
   notes |-> {},
   videos |-> {},
   editingSubject |-> NoForm,
   isAdding |-> FALSE,
   selectedSubject |-> NoRow,
   showAddNote |-> FALSE,
   showAddVideo |-> FALSE,
   newNote |-> NoNote,
   newVideo |-> NoVideo,
   did |-> "",                \* the handler the user called last
   log |-> << >>,             \* the requests sent since then
   outcome |-> "none",        \* how the last answered request ended
   writes |-> 0]              \* the writes the session has submitted

\* the application while the auth context loads
AppLoading == [AppLogin EXCEPT !.authLoading = TRUE]

\* ---------------------------------------------------------------- initial state
\* the migration's sample data, cut down to two subjects, a note and a video;
\* ids 1 to 4 are theirs
SampleData ==
  /\ subjects =
       (1 :> [name |-> "Mathematics",
              description |-> "Advanced mathematical concepts and problem solving"]) @@
       (2 :> [name |-> "Physics", description |-> "Classical and modern physics principles"])
  /\ notes = (3 :> [subject_id |-> 1, title |-> "Calculus Fundamentals",
                    pdf_url |-> "https://example.com/calculus.pdf"])
  /\ pdfs = {}
  /\ videos = (4 :> [subject_id |-> 2, title |-> "Quantum Physics Overview"])
  /\ nextId = 5

Init ==
  /\ authUsers = {}
  /\ users = << >>
  /\ SampleData
  /\ resp = Answer("init", Anon, NoRow, TRUE, {})
  /\ app = << >>

\* ---------------------------------------------------------------- provisioning
EmailTaken(e, except) == \E id \in DOMAIN users \ {except} : users[id].email = e

\* the insert of the trigger; a unique violation is caught and the row is not created
handle_new_user(id, email) ==
  IF id \in DOMAIN users \/ EmailTaken(email, id)
  THEN users
  ELSE Put(users, id, [email |-> email, access |-> FALSE, is_admin |-> FALSE])

\* first authentication: the row of auth.users and the trigger on it
SignUp(id) ==
  /\ id \notin authUsers
  /\ authUsers' = authUsers \cup {id}
  /\ users' = handle_new_user(id, id)
  /\ resp' = Answer("signUp", id, id, TRUE, {})
  /\ UNCHANGED content

\* a later authentication of the same identity: no row of auth.users is inserted
SignIn(id) ==
  /\ id \in authUsers
  /\ resp' = Answer("signIn", id, id, TRUE, {})
  /\ UNCHANGED <<accounts, content>>

\* the first administrator is set by hand in the table editor
AdminSetup(id) ==
  /\ id \in DOMAIN users
  /\ ~\E a \in DOMAIN users : users[a].is_admin
  /\ users' = [users EXCEPT ![id].is_admin = TRUE, ![id].access = TRUE]
  /\ resp' = Answer("adminSetup", Anon, id, TRUE, {})
  /\ UNCHANGED <<authUsers, content>>

\* ---------------------------------------------------------------- requests on users
SelectUsers(r) ==
  /\ resp' = Answer("selectUsers", r, NoRow, TRUE, SelectUsersRows(r))
  /\ UNCHANGED <<accounts, content>>

Patches ==
  {[col |-> c, val |-> b, email |-> 0] : c \in {"access", "is_admin"}, b \in BOOLEAN} \cup
  {[col |-> "email", val |-> FALSE, email |-> e] : e \in Emails}

Patched(row, p) ==
  CASE p.col = "access" -> [row EXCEPT !.access = p.val]
    [] p.col = "is_admin" -> [row EXCEPT !.is_admin = p.val]
    [] p.col = "email" -> [row EXCEPT !.email = p.email]

UpdateUserApplies(r, id, p) ==
  /\ id \in DOMAIN users
  /\ UsersSelect(r, id)
  /\ UsersUpdate(r, id)
  /\ p.col = "email" => ~EmailTaken(p.email, id)

UpdateUser(r, id, p) ==
  /\ users' = IF UpdateUserApplies(r, id, p)
              THEN [users EXCEPT ![id] = Patched(users[id], p)]
              ELSE users
  /\ resp' = [Answer("updateUser", r, id, UpdateUserApplies(r, id, p), {})
                EXCEPT !.col = p.col, !.val = p.val]
  /\ UNCHANGED <<authUsers, content>>

InsertUserApplies(r, id) ==
  /\ UsersInsert(r, id)
  /\ id \in authUsers
  /\ id \notin DOMAIN users
  /\ ~EmailTaken(id, id)

InsertUser(r, id, acc, adm) ==
  /\ users' = IF InsertUserApplies(r, id)
              THEN Put(users, id, [email |-> id, access |-> acc, is_admin |-> adm])
              ELSE users
  /\ resp' = Answer("insertUser", r, id, InsertUserApplies(r, id), {})
  /\ UNCHANGED <<authUsers, content>>

DeleteUserApplies(r, id) == id \in DOMAIN users /\ UsersSelect(r, id) /\ UsersDelete(r, id)

DeleteUser(r, id) ==
  /\ users' = IF DeleteUserApplies(r, id) THEN Drop(users, {id}) ELSE users
  /\ resp' = Answer("deleteUser", r, id, DeleteUserApplies(r, id), {})
  /\ UNCHANGED <<authUsers, content>>

\* ---------------------------------------------------------------- requests that read content
SelectSubjects(r) ==
  /\ resp' = Answer("selectSubjects", r, NoRow, TRUE, SelectSubjectsRows(r))
  /\ UNCHANGED <<accounts, content>>

SelectNotes(r) ==
  /\ resp' = Answer("selectNotes", r, NoRow, TRUE, SelectNotesRows(r))
  /\ UNCHANGED <<accounts, content>>

SelectVideos(r) ==
  /\ resp' = Answer("selectVideos", r, NoRow, TRUE, SelectVideosRows(r))
  /\ UNCHANGED <<accounts, content>>


\* ---------------------------------------------------------------- requests that write content
SubjectTargets == DOMAIN subjects \cup {NoRow}
NoteTargets == DOMAIN notes \cup {NoRow}
VideoTargets == DOMAIN videos \cup {NoRow}

\* ON DELETE CASCADE of notes.subject_id and videos.subject_id
CascadeKeepAll(rows, s) == {}
CascadeEverything(rows, s) == DOMAIN rows
CascadeDelete(rows, s) == {x \in DOMAIN rows : rows[x].subject_id = s}

\* REFERENCES subjects(id) of notes.subject_id and videos.subject_id
ForeignKeyAny(s) == TRUE
ForeignKeyHolds(s) == s \in DOMAIN subjects

InsertSubjectApplies(r) == SubjectsWrite(r)

InsertSubject(r, name, description) ==
  /\ InsertSubjectApplies(r) => nextId <= MaxRows
  /\ IF InsertSubjectApplies(r)
     THEN /\ subjects' = Put(subjects, nextId, [name |-> name, description |-> description])
          /\ nextId' = nextId + 1
          /\ resp' = Answer("insertSubject", r, nextId, TRUE, {})
     ELSE /\ UNCHANGED <<subjects, nextId>>
          /\ resp' = Answer("insertSubject", r, NoRow, FALSE, {})
  /\ UNCHANGED <<accounts, notes, videos>>

SubjectRowApplies(r, s) == s \in DOMAIN subjects /\ SubjectsSelect(r) /\ SubjectsWrite(r)

\* the SET clause of the update: both columns in one statement
SubjectSetNameOnly(row, name, description) == [row EXCEPT !.name = name]
SubjectSet(row, name, description) == [row EXCEPT !.name = name, !.description = description]

UpdateSubject(r, s, name, description) ==
  /\ subjects' = IF SubjectRowApplies(r, s)
                 THEN [subjects EXCEPT ![s] = SubjectSet(subjects[s], name, description)]
                 ELSE subjects
  /\ resp' = Answer("updateSubject", r, s, SubjectRowApplies(r, s), {})
  /\ UNCHANGED <<accounts, notes, videos, nextId>>

DeleteSubject(r, s) ==
  /\ IF SubjectRowApplies(r, s)
     THEN /\ subjects' = Drop(subjects, {s})
          /\ notes' = Drop(notes, CascadeDelete(notes, s))
          /\ videos' = Drop(videos, CascadeDelete(videos, s))
          /\ resp' = Answer("deleteSubject", r, s, TRUE,
                            {s} \cup CascadeDelete(notes, s) \cup CascadeDelete(videos, s))
     ELSE /\ UNCHANGED <<subjects, notes, videos>>
          /\ resp' = Answer("deleteSubject", r, s, FALSE, {})
  /\ UNCHANGED <<accounts, nextId>>

InsertNoteApplies(r, s) == NotesWrite(r) /\ ForeignKeyHolds(s)

InsertNote(r, s, title, pdf_url) ==
  /\ InsertNoteApplies(r, s) => nextId <= MaxRows
  /\ IF InsertNoteApplies(r, s)
     THEN /\ notes' = Put(notes, nextId, [subject_id |-> s, title |-> title, pdf_url |-> pdf_url])
          /\ nextId' = nextId + 1
          /\ resp' = Answer("insertNote", r, s, TRUE, {})
     ELSE /\ UNCHANGED <<notes, nextId>>
          /\ resp' = Answer("insertNote", r, s, FALSE, {})
  /\ UNCHANGED <<accounts, subjects, videos>>

NoteRowApplies(r, n) == n \in DOMAIN notes /\ NotesSelect(r) /\ NotesWrite(r)

UpdateNote(r, n, s) ==
  /\ notes' = IF NoteRowApplies(r, n) /\ ForeignKeyHolds(s)
              THEN [notes EXCEPT ![n].subject_id = s]
              ELSE notes
  /\ resp' = Answer("updateNote", r, n, NoteRowApplies(r, n) /\ ForeignKeyHolds(s), {})
  /\ UNCHANGED <<accounts, subjects, videos, nextId>>

DeleteNote(r, n) ==
  /\ notes' = IF NoteRowApplies(r, n) THEN Drop(notes, {n}) ELSE notes
  /\ resp' = Answer("deleteNote", r, n, NoteRowApplies(r, n),
                    IF NoteRowApplies(r, n) THEN {n} ELSE {})
  /\ UNCHANGED <<accounts, subjects, videos, nextId>>

InsertVideoApplies(r, s) == VideosWrite(r) /\ ForeignKeyHolds(s)

InsertVideo(r, s, title) ==
  /\ InsertVideoApplies(r, s) => nextId <= MaxRows
  /\ IF InsertVideoApplies(r, s)
     THEN /\ videos' = Put(videos, nextId, [subject_id |-> s, title |-> title])
          /\ nextId' = nextId + 1
          /\ resp' = Answer("insertVideo", r, s, TRUE, {})
     ELSE /\ UNCHANGED <<videos, nextId>>
          /\ resp' = Answer("insertVideo", r, s, FALSE, {})
  /\ UNCHANGED <<accounts, subjects, notes>>

VideoRowApplies(r, v) == v \in DOMAIN videos /\ VideosSelect(r) /\ VideosWrite(r)

UpdateVideo(r, v, s) ==
  /\ videos' = IF VideoRowApplies(r, v) /\ ForeignKeyHolds(s)
               THEN [videos EXCEPT ![v].subject_id = s]
               ELSE videos
  /\ resp' = Answer("updateVideo", r, v, VideoRowApplies(r, v) /\ ForeignKeyHolds(s), {})
  /\ UNCHANGED <<accounts, subjects, notes, nextId>>

DeleteVideo(r, v) ==
  /\ videos' = IF VideoRowApplies(r, v) THEN Drop(videos, {v}) ELSE videos
  /\ resp' = Answer("deleteVideo", r, v, VideoRowApplies(r, v),
                    IF VideoRowApplies(r, v) THEN {v} ELSE {})
  /\ UNCHANGED <<accounts, subjects, notes, nextId>>

\* ---------------------------------------------------------------- specifications
Next ==
  /\ UNCHANGED <<app, pdfs>>
  /\ \/ \E id \in Ids : SignUp(id)
     \/ \E id \in Ids : SignIn(id)
     \/ \E id \in Ids : AdminSetup(id)
     \/ \E r \in Requesters : SelectUsers(r)
     \/ \E r \in Requesters, id \in Ids, p \in Patches : UpdateUser(r, id, p)
     \/ \E r \in Requesters, id \in Ids, acc \in BOOLEAN, adm \in BOOLEAN :
          InsertUser(r, id, acc, adm)
     \/ \E r \in Requesters, id \in Ids : DeleteUser(r, id)
     \/ \E r \in Requesters : SelectSubjects(r)
     \/ \E r \in Requesters : SelectNotes(r)
     \/ \E r \in Requesters : SelectVideos(r)

Spec == Init /\ [][Next]_vars

\* the content writes of a requester r
ContentWrite(r) ==
  \/ \E f \in SubjectForms : InsertSubject(r, f.name, f.description)
  \/ \E s \in SubjectTargets, f \in SubjectForms : UpdateSubject(r, s, f.name, f.description)
  \/ \E s \in SubjectTargets : DeleteSubject(r, s)
  \/ \E s \in SubjectTargets, t \in Titles, u \in PdfUrls : InsertNote(r, s, t, u)
  \/ \E n \in NoteTargets, s \in SubjectTargets : UpdateNote(r, n, s)
  \/ \E n \in NoteTargets : DeleteNote(r, n)
  \/ \E s \in SubjectTargets, t \in Titles : InsertVideo(r, s, t)
  \/ \E v \in VideoTargets, s \in SubjectTargets : UpdateVideo(r, v, s)
  \/ \E v \in VideoTargets : DeleteVideo(r, v)

\* every request of a requester r
Request(r) ==
  \/ SelectUsers(r)
  \/ \E id \in Ids, p \in Patches : UpdateUser(r, id, p)
  \/ \E id \in Ids, acc \in BOOLEAN, adm \in BOOLEAN : InsertUser(r, id, acc, adm)
  \/ \E id \in Ids : DeleteUser(r, id)
  \/ SelectSubjects(r)
  \/ SelectNotes(r)
  \/ SelectVideos(r)
  \/ ContentWrite(r)

\* accounts come and go as in Spec (provisioning, the first administrator, an
\* owner changing the email of its row); every request is sent by a requester
\* that has no Account row
NextOutsider ==
  /\ UNCHANGED <<app, pdfs>>
  /\ \/ \E id \in Ids : SignUp(id)
     \/ \E id \in Ids : AdminSetup(id)
     \/ \E id \in Ids, e \in Emails :
          id \in DOMAIN users /\ UpdateUser(id, id, [col |-> "email", val |-> FALSE, email |-> e])
     \/ \E r \in Requesters : r \notin DOMAIN users /\ Request(r)

SpecOutsider == Init /\ [][NextOutsider]_vars

\* the cast of SpecContent: an administrator with access and a member who has
\* access only; both have authenticated
InitContent ==
  /\ authUsers = Cast
  /\ users = [id \in Cast |-> [email |-> id, access |-> TRUE, is_admin |-> (id = 1)]]
  /\ SampleData
  /\ resp = Answer("init", Anon, NoRow, TRUE, {})
  /\ app = << >>

NextContent ==
  /\ UNCHANGED <<app, pdfs>>
  /\ \/ \E r \in Cast : SelectSubjects(r)
     \/ \E r \in Cast : SelectNotes(r)
     \/ \E r \in Cast : SelectVideos(r)
     \/ \E r \in Cast : ContentWrite(r)

SpecContent == InitContent /\ [][NextContent]_vars


\* ================================================================ the application
\* One handler runs at a time in a session: a user action is taken when the
\* session is idle, and the handler then awaits the answer to its request. The
\* record of a user action (did, log, outcome) is kept until the screen has
\* been rendered with its result.
Idle(c) ==
  c \in DOMAIN app /\ app[c].pc = "idle" /\ app[c].did = "" /\ ~app[c].authLoading
\* the session may still submit a write
Ready(c) == Idle(c) /\ app[c].writes < MaxWrites
Awaits(c, h) == c \in DOMAIN app /\ app[c].pc = h
\* setState of the component of session c; no file is stored
Set(c, a) == app' = [app EXCEPT ![c] = a] /\ UNCHANGED pdfs

\* the rows a list of session c shows
Listed(c, list) == IF c \in DOMAIN app THEN app[c][list] ELSE {}

\* the user calls handler h
Called(a, h) == [a EXCEPT !.did = h, !.log = << >>, !.outcome = "none"]
\* handler h sends requests and awaits the answer
Sent(a, h, requests) == [a EXCEPT !.pc = h, !.log = @ \o requests]
\* handler h sends the requests of a write and awaits the answer
Submit(a, h, requests) == [Sent(a, h, requests) EXCEPT !.writes = @ + 1]
\* the handler ran to its end
Ended(a, outcome) ==
  [a EXCEPT !.pc = "idle", !.arg = NoArg, !.pdfUrl = "", !.outcome = outcome]
\* catch (error) { console.error(...) }: the handler ends, nothing is sent again
RetryAfterCatch(a) == [a EXCEPT !.outcome = "error", !.log = Append(@, @[Len(@)])]
AfterCatchReset(a) == [Ended(a, "error") EXCEPT !.editingSubject = NoForm, !.isAdding = FALSE]
AfterCatchClosing(a) == [Ended(a, "error") EXCEPT !.showAddNote = FALSE]
AfterCatch(a) == Ended(a, "error")
\* finally { setLoading(false) } and finally { setUploadingFile(false) }
LoadingKept(a) == a
FinallyLoading(a) == [a EXCEPT !.loading = FALSE]
FinallyUploading(a) == [a EXCEPT !.uploadingFile = FALSE]

\* a component is mounted: its state is as useState creates it
AdminTabs == {"UserManagement", "SubjectManagement", "ContentManagement"}
PathOf(screen) == IF screen \in AdminTabs THEN "/admin" ELSE "/"

Mount(a, screen) ==
  [AppLogin EXCEPT !.session = a.session, !.path = PathOf(screen), !.screen = screen,
                   !.user = a.user, !.loading = TRUE, !.writes = a.writes]

\* the profile the auth context holds for identity c
ProfileOf(table, c) ==
  IF c \in DOMAIN table
  THEN [id |-> c, access |-> table[c].access, is_admin |-> table[c].is_admin]
  ELSE NoUser

ContentRequests == <<"subjects.select", "notes.select", "videos.select">>

\* the component has been rendered with the result of the last user action
Rendered(c) ==
  /\ c \in DOMAIN app /\ app[c].pc = "idle" /\ app[c].did # ""
  /\ Set(c, [app[c] EXCEPT !.did = "", !.log = << >>, !.outcome = "none"])
  /\ UNCHANGED store

\* ---------------------------------------------------------------- Login
TypedEmails == {"", "user@example.com"}

\* if (!email) return
EmailRejected(email) == email = ""

handleSubmit(c, email) ==
  /\ Idle(c) /\ app[c].screen = "Login"
  /\ LET a == Called([app[c] EXCEPT !.email = email], "handleSubmit") IN
       Set(c, IF EmailRejected(email)
              THEN a
              ELSE Sent([a EXCEPT !.loading = TRUE, !.message = ""],
                        "handleSubmit", <<"signInWithEmail">>))
  /\ UNCHANGED store

\* signInWithEmail resolves (ok) or throws
handleSubmitDone(c, ok) ==
  /\ Awaits(c, "handleSubmit")
  /\ Set(c, FinallyLoading(
              IF ok
              THEN [Ended(app[c], "ok") EXCEPT !.message = CheckEmail]
              ELSE [AfterCatch(app[c]) EXCEPT !.message = ErrorSending]))
  /\ UNCHANGED store

\* ---------------------------------------------------------------- Dashboard
\* useEffect(..., [user]): fetch the content, or only end the spinner
DashboardFetchesAlways(user) == TRUE
DashboardFetches(user) == user.access

DashboardEffect(a) ==
  IF DashboardFetches(a.user)
  THEN Sent(a, "fetchContent", ContentRequests)
  ELSE [a EXCEPT !.loading = FALSE]

\* what Dashboard renders
DashboardView(a) ==
  IF a.loading THEN "spinner"
  ELSE IF ~a.user.access THEN "Access Pending"
  ELSE "content"

\* the three answers of Promise.all; a list is set only when its answer has data
fetchContentDone(c, okS, okN, okV) ==
  /\ Awaits(c, "fetchContent")
  /\ IF okV THEN SelectVideos(c) ELSE UNCHANGED store
  /\ Set(c, FinallyLoading(
              [Ended(app[c], IF okS /\ okN /\ okV THEN "ok" ELSE "error") EXCEPT
                 !.subjects = IF okS THEN SelectSubjectsRows(c) ELSE @,
                 !.notes = IF okN THEN SelectNotesRows(c) ELSE @,
                 !.videos = IF okV THEN SelectVideosRows(c) ELSE @]))

\* ---------------------------------------------------------------- session and routes
\* the magic link is followed: the identity authenticates (the first time it is
\* provisioned), the profile is loaded and the route "/" shows Dashboard
SessionStart(c) ==
  /\ Idle(c) /\ app[c].screen = "Login" /\ app[c].message = CheckEmail
  /\ IF c \in authUsers THEN SignIn(c) ELSE SignUp(c)
  /\ Set(c, DashboardEffect(
              Called(Mount([app[c] EXCEPT !.session = TRUE, !.user = ProfileOf(users', c)],
                           "Dashboard"),
                     "SessionStart")))

\* the routes a signed-in user can open: "/" always, "/admin" with is_admin
Routes(user) == {"Dashboard"} \cup (IF user.is_admin THEN AdminTabs ELSE {})

\* the first request of a component, sent by its useEffect(..., [])
MountEffect(a) ==
  CASE a.screen = "Dashboard" -> DashboardEffect(a)
    [] a.screen = "UserManagement" -> Sent(a, "fetchUsers", <<"users.select">>)
    [] a.screen = "SubjectManagement" -> Sent(a, "fetchSubjects", <<"subjects.select">>)
    [] a.screen = "ContentManagement" -> Sent(a, "fetchData", ContentRequests)
    [] OTHER -> [a EXCEPT !.loading = FALSE]

\* admin route protection: the child of the route, or nothing of it when the
\* route is for administrators and the user is not one
ProtectedRoute(adminOnly, user, child) == IF adminOnly /\ ~user.is_admin THEN {} ELSE {child}

\* <Routes>: the element of the route that matches the path
RouteElement(a) ==
  CASE a.path = "/" -> ProtectedRoute(FALSE, a.user, "Dashboard")
    [] a.path = "/admin" -> ProtectedRoute(TRUE, a.user, "AdminPanel")
    [] OTHER -> {"Navigate"}

\* Layout: the header, with the Admin link for user?.is_admin, around the route
Layout(a, children) ==
  {"Layout"} \cup (IF a.user.is_admin THEN {"AdminLink"} ELSE {}) \cup children

\* what AppContent renders
AppContentWithoutSession(a) ==
  IF a.authLoading THEN {"spinner"} ELSE Layout(a, RouteElement(a))
AppContent(a) ==
  IF a.authLoading THEN {"spinner"}
  ELSE IF ~a.session THEN {"Login"}
  ELSE Layout(a, RouteElement(a))

\* the component that the route of a signed-in session mounts; a path without
\* a route is replaced by "/", AdminPanel opens on its Users tab
Routed(a) ==
  LET b == IF a.path \in {"/", "/admin"} THEN a ELSE [a EXCEPT !.path = "/"]
      screen == IF "Dashboard" \in RouteElement(b) THEN "Dashboard"
                ELSE IF "AdminPanel" \in RouteElement(b) THEN "UserManagement"
                ELSE "ProtectedRoute" IN
    MountEffect([Mount(b, screen) EXCEPT !.path = b.path])

\* the paths a user types into the address bar
Paths == {"/", "/admin", "/notes"}

\* the page is loaded at a path: every component state is lost, the session
\* is kept by the browser, the auth context loads
OpenUrl(c, path) ==
  /\ Idle(c)
  /\ Set(c, Called([AppLoading EXCEPT !.session = app[c].session, !.path = path,
                                     !.writes = app[c].writes], "OpenUrl"))
  /\ UNCHANGED store

\* the auth context has loaded: without a session Login is shown, with one the
\* profile is loaded and the route is rendered
getSession(c) ==
  /\ c \in DOMAIN app /\ app[c].authLoading /\ app[c].pc = "idle"
  /\ Set(c, IF app[c].session
            THEN [Routed([app[c] EXCEPT !.authLoading = FALSE,
                                        !.user = ProfileOf(users, c)])
                    EXCEPT !.did = "getSession"]
            ELSE [app[c] EXCEPT !.authLoading = FALSE])
  /\ UNCHANGED store

\* the auth context reloads the profile; Dashboard's effect depends on it
ProfileRefresh(c) ==
  /\ Idle(c) /\ app[c].screen # "Login"
  /\ app[c].user # ProfileOf(users, c)
  /\ LET a == Called([app[c] EXCEPT !.user = ProfileOf(users, c)], "ProfileRefresh") IN
       Set(c, IF RouteElement(a) # RouteElement(app[c]) THEN [Routed(a) EXCEPT !.did = a.did]
              ELSE IF a.screen = "Dashboard" THEN DashboardEffect(a) ELSE a)
  /\ UNCHANGED store

Navigate(c, screen) ==
  /\ Idle(c) /\ app[c].screen # "Login"
  /\ screen \in Routes(app[c].user) \ {app[c].screen}
  /\ Set(c, MountEffect(Called(Mount(app[c], screen), "Navigate")))
  /\ UNCHANGED store

\* Layout: await signOut(); without a session AppContent renders Login
handleSignOut(c) ==
  /\ Idle(c) /\ app[c].screen # "Login"
  /\ Set(c, Sent(Called(app[c], "handleSignOut"), "handleSignOut", <<"signOut">>))
  /\ UNCHANGED store

handleSignOutDone(c, ok) ==
  /\ Awaits(c, "handleSignOut")
  /\ Set(c, IF ok
            THEN [AppLogin EXCEPT !.path = app[c].path,
                             !.did = "handleSignOut", !.log = app[c].log, !.outcome = "ok",
                             !.writes = app[c].writes]
            ELSE AfterCatch(app[c]))
  /\ UNCHANGED store

\* ---------------------------------------------------------------- UserManagement
fetchUsersDone(c, ok) ==
  /\ Awaits(c, "fetchUsers")
  /\ IF ok THEN SelectUsers(c) ELSE UNCHANGED store
  /\ Set(c, FinallyLoading(
              IF ok
              THEN [Ended(app[c], "ok") EXCEPT !.users = SelectUsersRows(c)]
              ELSE AfterCatch(app[c])))

\* users.map(user => user.id === userId ? { ...user, [col]: val } : user)
MapUser(list, id, col, val) == {IF u.id = id THEN [u EXCEPT ![col] = val] ELSE u : u \in list}

toggleUserAccess(c, row) ==
  /\ Ready(c) /\ app[c].screen = "UserManagement" /\ ~app[c].loading
  /\ row \in app[c].users
  /\ Set(c, Submit(Called([app[c] EXCEPT !.arg = [id |-> row.id, flag |-> row.access]],
                        "toggleUserAccess"),
                 "toggleUserAccess", <<"users.update">>))
  /\ UNCHANGED store

\* an update that matches no row is answered without an error
toggleUserAccessDone(c, ok) ==
  /\ Awaits(c, "toggleUserAccess")
  /\ LET id == app[c].arg.id
         val == ~app[c].arg.flag IN
       /\ IF ok THEN UpdateUser(c, id, [col |-> "access", val |-> val, email |-> 0])
                ELSE UNCHANGED store
       /\ Set(c, IF ok
                 THEN [Ended(app[c], IF resp'.ok THEN "ok" ELSE "norow") EXCEPT
                         !.users = MapUser(@, id, "access", val)]
                 ELSE AfterCatch(app[c]))

toggleAdminStatus(c, row) ==
  /\ Ready(c) /\ app[c].screen = "UserManagement" /\ ~app[c].loading
  /\ row \in app[c].users
  /\ Set(c, Submit(Called([app[c] EXCEPT !.arg = [id |-> row.id, flag |-> row.is_admin]],
                        "toggleAdminStatus"),
                 "toggleAdminStatus", <<"users.update">>))
  /\ UNCHANGED store

toggleAdminStatusDone(c, ok) ==
  /\ Awaits(c, "toggleAdminStatus")
  /\ LET id == app[c].arg.id
         val == ~app[c].arg.flag IN
       /\ IF ok THEN UpdateUser(c, id, [col |-> "is_admin", val |-> val, email |-> 0])
                ELSE UNCHANGED store
       /\ Set(c, IF ok
                 THEN [Ended(app[c], IF resp'.ok THEN "ok" ELSE "norow") EXCEPT
                         !.users = MapUser(@, id, "is_admin", val)]
                 ELSE AfterCatch(app[c]))

\* ---------------------------------------------------------------- SubjectManagement
\* what the administrator types into the subject form
TypedNames == {"", " ", " Chemistry "}
TypedDescriptions == {"", "Mechanics"}
NullText == "NULL"          \* SQL NULL in a text column

\* String.prototype.trim on the typed texts
Trim(t) ==
  CASE t = " " -> ""
    [] t = " Chemistry " -> "Chemistry"
    [] OTHER -> t
\* x || null and x || ''
OrNull(t) == IF t = "" THEN NullText ELSE t
OrEmpty(t) == IF t = NullText THEN "" ELSE t

fetchSubjectsDone(c, ok) ==
  /\ Awaits(c, "fetchSubjects")
  /\ IF ok THEN SelectSubjects(c) ELSE UNCHANGED store
  /\ Set(c, FinallyLoading(
              IF ok
              THEN [Ended(app[c], "ok") EXCEPT !.subjects = SelectSubjectsRows(c)]
              ELSE AfterCatch(app[c])))

\* the Add, Edit and Delete buttons are disabled while a subject is under edit
SubjectButtonsAlways(a) == TRUE
SubjectButtonsEnabled(a) == ~a.editingSubject.open /\ ~a.isAdding

startEditing(c, row) ==
  /\ Idle(c) /\ app[c].screen = "SubjectManagement" /\ ~app[c].loading
  /\ SubjectButtonsEnabled(app[c])
  /\ row \in app[c].subjects
  /\ Set(c, [Called(app[c], "startEditing") EXCEPT
               !.editingSubject = [open |-> TRUE, id |-> row.id, name |-> row.name,
                                   description |-> OrEmpty(row.description)],
               !.isAdding = FALSE])
  /\ UNCHANGED store

startAdding(c) ==
  /\ Idle(c) /\ app[c].screen = "SubjectManagement" /\ ~app[c].loading
  /\ SubjectButtonsEnabled(app[c])
  /\ Set(c, [Called(app[c], "startAdding") EXCEPT
               !.editingSubject = [open |-> TRUE, id |-> NoRow, name |-> "", description |-> ""],
               !.isAdding = TRUE])
  /\ UNCHANGED store

cancelEditing(c) ==
  /\ Idle(c) /\ app[c].screen = "SubjectManagement" /\ ~app[c].loading
  /\ app[c].editingSubject.open
  /\ Set(c, [Called(app[c], "cancelEditing") EXCEPT !.editingSubject = NoForm, !.isAdding = FALSE])
  /\ UNCHANGED store

\* if (!editingSubject || !editingSubject.name.trim()) return
SaveRejectedUntrimmed(form) == ~form.open \/ form.name = ""
SaveRejected(form) == ~form.open \/ Trim(form.name) = ""

\* the administrator has typed name and description into the open form (the
\* onChange handlers) and handleSave is called
handleSave(c, name, description) ==
  /\ Ready(c) /\ app[c].screen = "SubjectManagement" /\ ~app[c].loading
  /\ LET form == IF app[c].editingSubject.open
                 THEN [app[c].editingSubject EXCEPT !.name = name, !.description = description]
                 ELSE app[c].editingSubject
         a == Called([app[c] EXCEPT !.editingSubject = form], "handleSave") IN
       Set(c, IF SaveRejected(form) THEN a
              ELSE IF form.id # NoRow THEN Submit(a, "handleSave", <<"subjects.update">>)
              ELSE Submit(a, "handleSave", <<"subjects.insert">>))
  /\ UNCHANGED store

\* the answer to the update or to the insert(...).select().single(); an insert
\* that the store refuses is answered with an error
handleSaveDone(c, ok) ==
  /\ Awaits(c, "handleSave")
  /\ LET form == app[c].editingSubject
         name == Trim(form.name)
         description == OrNull(Trim(form.description))
         closed == [Ended(app[c], "ok") EXCEPT !.editingSubject = NoForm, !.isAdding = FALSE] IN
       IF ~ok \/ (form.id = NoRow /\ nextId > MaxRows)
       THEN UNCHANGED store /\ Set(c, AfterCatch(app[c]))
       ELSE IF form.id # NoRow
       THEN /\ UpdateSubject(c, form.id, name, description)
            /\ Set(c, [closed EXCEPT
                         !.outcome = IF resp'.ok THEN "ok" ELSE "norow",
                         !.subjects = {IF x.id = form.id
                                       THEN [x EXCEPT !.name = form.name,
                                                      !.description = form.description]
                                       ELSE x : x \in @}])
       ELSE /\ InsertSubject(c, name, description)
            /\ Set(c, IF resp'.ok
                      THEN [closed EXCEPT
                              !.subjects = @ \cup {[id |-> resp'.tgt, name |-> name,
                                                    description |-> description]}]
                      ELSE AfterCatch(app[c]))

\* if (!confirm(...)) return
handleDelete(c, row, confirmed) ==
  /\ Ready(c) /\ app[c].screen = "SubjectManagement" /\ ~app[c].loading
  /\ SubjectButtonsEnabled(app[c])
  /\ row \in app[c].subjects
  /\ LET a == Called(app[c], "handleDelete") IN
       Set(c, IF confirmed
              THEN Submit([a EXCEPT !.arg = [id |-> row.id, flag |-> FALSE]],
                        "handleDelete", <<"subjects.delete">>)
              ELSE a)
  /\ UNCHANGED store

handleDeleteDone(c, ok) ==
  /\ Awaits(c, "handleDelete")
  /\ LET id == app[c].arg.id IN
       /\ IF ok THEN DeleteSubject(c, id) ELSE UNCHANGED store
       /\ Set(c, IF ok
                 THEN [Ended(app[c], IF resp'.ok THEN "ok" ELSE "norow") EXCEPT
                         !.subjects = {x \in @ : x.id # id}]
                 ELSE AfterCatch(app[c]))


\* ---------------------------------------------------------------- ContentManagement
\* what the administrator types into the note and video forms: everything, or
\* all but one field
NoteFills ==
  {[title |-> "Calculus Fundamentals", file |-> "calculus.pdf", subject |-> TRUE],
   [title |-> "", file |-> "calculus.pdf", subject |-> TRUE],
   [title |-> "Calculus Fundamentals", file |-> "", subject |-> TRUE],
   [title |-> "Calculus Fundamentals", file |-> "calculus.pdf", subject |-> FALSE]}
VideoFills ==
  {[title |-> "Quantum Physics Overview", youtube_url |-> "https://youtu.be/dQw4w9WgXcQ",
    subject |-> TRUE],
   [title |-> "", youtube_url |-> "https://youtu.be/dQw4w9WgXcQ", subject |-> TRUE],
   [title |-> "Quantum Physics Overview", youtube_url |-> "", subject |-> TRUE],
   [title |-> "Quantum Physics Overview", youtube_url |-> "https://youtu.be/dQw4w9WgXcQ",
    subject |-> FALSE]}
\* the options of the subject dropdown: "Select a subject" and the listed subjects
SubjectOptions(a) == {NoRow} \cup {x.id : x \in a.subjects}

fetchDataDone(c, okS, okN, okV) ==
  /\ Awaits(c, "fetchData")
  /\ IF okV THEN SelectVideos(c) ELSE UNCHANGED store
  /\ Set(c, FinallyLoading(
              [Ended(app[c], IF okS /\ okN /\ okV THEN "ok" ELSE "error") EXCEPT
                 !.subjects = IF okS THEN SelectSubjectsRows(c) ELSE @,
                 !.notes = IF okN THEN SelectNotesRows(c) ELSE @,
                 !.videos = IF okV THEN SelectVideosRows(c) ELSE @]))

\* if (!newNote.title || !newNote.file || !selectedSubject) return
NoteRejected(a) == a.newNote.title = "" \/ a.newNote.file = "" \/ a.selectedSubject = NoRow

\* the administrator has opened the note form, filled it in and submits it
handleAddNote(c, fill, subject) ==
  /\ Ready(c) /\ app[c].screen = "ContentManagement" /\ ~app[c].loading
  /\ ~app[c].uploadingFile
  /\ subject \in SubjectOptions(app[c])
  /\ fill.subject <=> subject # NoRow
  /\ LET a == Called([app[c] EXCEPT !.showAddNote = TRUE,
                                    !.newNote = [title |-> fill.title, file |-> fill.file],
                                    !.selectedSubject = subject], "handleAddNote") IN
       Set(c, IF NoteRejected(a) THEN a
              ELSE Submit([a EXCEPT !.uploadingFile = TRUE], "handleFileUpload",
                        <<"storage.upload">>))
  /\ UNCHANGED store

\* Math.random().toString(36).substring(2): the names it returns, in the
\* order in which they are drawn for the first time
RandomNames == {"4fzyo82m", "k9x1q7c0"}
FirstDrawn == "4fzyo82m"
\* a draw returns a name drawn before or the next new one
Draws == IF pdfs = {} THEN {FirstDrawn} ELSE RandomNames
\* file.name.split('.').pop()
FileExt(file) == IF file = "calculus.pdf" THEN "pdf" ELSE file
\* `pdfs/${fileName}` with fileName = `${random}.${fileExt}`
FilePath(random, file) == "pdfs/" \o random \o "." \o FileExt(file)
\* VITE_SUPABASE_URL
SupabaseUrl == "your_supabase_project_url"
\* storage.from('pdfs').getPublicUrl(filePath).data.publicUrl
PathAsUrl(path) == path
PublicUrl(path) == SupabaseUrl \o "/storage/v1/object/public/pdfs/" \o path

\* the answer of the storage: the file is stored under a path that is free and
\* its public URL is returned, or uploadError is thrown
handleFileUploadDone(c, ok, random) ==
  /\ Awaits(c, "handleFileUpload") /\ random \in Draws
  /\ LET file == app[c].newNote.file
         path == FilePath(random, file) IN
       IF ok /\ path \notin pdfs
       THEN /\ pdfs' = pdfs \cup {path}
            /\ app' = [app EXCEPT ![c] = Sent([app[c] EXCEPT !.pdfUrl = PublicUrl(path)],
                                              "handleAddNote", <<"notes.insert">>)]
       ELSE Set(c, FinallyUploading(AfterCatch(app[c])))
  /\ UNCHANGED store

\* the answer to the insert; on success the form is reset and fetchData() is called
handleAddNoteDone(c, ok) ==
  /\ Awaits(c, "handleAddNote")
  /\ IF ~ok \/ nextId > MaxRows
     THEN UNCHANGED store /\ Set(c, FinallyUploading(AfterCatch(app[c])))
     ELSE /\ InsertNote(c, app[c].selectedSubject, app[c].newNote.title, app[c].pdfUrl)
          /\ Set(c, FinallyUploading(
                      IF resp'.ok
                      THEN Sent([Ended(app[c], "ok") EXCEPT !.newNote = NoNote,
                                                           !.showAddNote = FALSE],
                                "fetchData", ContentRequests)
                      ELSE AfterCatch(app[c])))

\* if (!newVideo.title || !newVideo.youtube_url || !selectedSubject) return
VideoRejected(a) ==
  a.newVideo.title = "" \/ a.newVideo.youtube_url = "" \/ a.selectedSubject = NoRow

handleAddVideo(c, fill, subject) ==
  /\ Ready(c) /\ app[c].screen = "ContentManagement" /\ ~app[c].loading
  /\ subject \in SubjectOptions(app[c])
  /\ fill.subject <=> subject # NoRow
  /\ LET a == Called([app[c] EXCEPT !.showAddVideo = TRUE,
                                    !.newVideo = [title |-> fill.title,
                                                  youtube_url |-> fill.youtube_url],
                                    !.selectedSubject = subject], "handleAddVideo") IN
       Set(c, IF VideoRejected(a) THEN a
              ELSE Submit(a, "handleAddVideo", <<"videos.insert">>))
  /\ UNCHANGED store

handleAddVideoDone(c, ok) ==
  /\ Awaits(c, "handleAddVideo")
  /\ IF ~ok \/ nextId > MaxRows
     THEN UNCHANGED store /\ Set(c, AfterCatch(app[c]))
     ELSE /\ InsertVideo(c, app[c].selectedSubject, app[c].newVideo.title)
          /\ Set(c, IF resp'.ok
                    THEN Sent([Ended(app[c], "ok") EXCEPT !.newVideo = NoVideo,
                                                         !.showAddVideo = FALSE],
                              "fetchData", ContentRequests)
                    ELSE AfterCatch(app[c]))

handleDeleteNote(c, row, confirmed) ==
  /\ Ready(c) /\ app[c].screen = "ContentManagement" /\ ~app[c].loading
  /\ row \in app[c].notes
  /\ LET a == Called(app[c], "handleDeleteNote") IN
       Set(c, IF confirmed
              THEN Submit([a EXCEPT !.arg = [id |-> row.id, flag |-> FALSE]],
                        "handleDeleteNote", <<"notes.delete">>)
              ELSE a)
  /\ UNCHANGED store

handleDeleteNoteDone(c, ok) ==
  /\ Awaits(c, "handleDeleteNote")
  /\ LET id == app[c].arg.id IN
       /\ IF ok THEN DeleteNote(c, id) ELSE UNCHANGED store
       /\ Set(c, IF ok
                 THEN [Ended(app[c], IF resp'.ok THEN "ok" ELSE "norow") EXCEPT
                         !.notes = {x \in @ : x.id # id}]
                 ELSE AfterCatch(app[c]))

handleDeleteVideo(c, row, confirmed) ==
  /\ Ready(c) /\ app[c].screen = "ContentManagement" /\ ~app[c].loading
  /\ row \in app[c].videos
  /\ LET a == Called(app[c], "handleDeleteVideo") IN
       Set(c, IF confirmed
              THEN Submit([a EXCEPT !.arg = [id |-> row.id, flag |-> FALSE]],
                        "handleDeleteVideo", <<"videos.delete">>)
              ELSE a)
  /\ UNCHANGED store

handleDeleteVideoDone(c, ok) ==
  /\ Awaits(c, "handleDeleteVideo")
  /\ LET id == app[c].arg.id IN
       /\ IF ok THEN DeleteVideo(c, id) ELSE UNCHANGED store
       /\ Set(c, IF ok
                 THEN [Ended(app[c], IF resp'.ok THEN "ok" ELSE "norow") EXCEPT
                         !.videos = {x \in @ : x.id # id}]
                 ELSE AfterCatch(app[c]))

\* ---------------------------------------------------------------- specifications of the application
\* the user actions and the answers of the Subjects tab
SubjectAction(c, descriptions) ==
  \/ \E row \in Listed(c, "subjects") : startEditing(c, row)
  \/ startAdding(c)
  \/ cancelEditing(c)
  \/ \E name \in TypedNames, description \in descriptions : handleSave(c, name, description)
  \/ \E row \in Listed(c, "subjects"), confirmed \in BOOLEAN : handleDelete(c, row, confirmed)

SubjectAnswered(c) ==
  \/ \E ok \in BOOLEAN : fetchSubjectsDone(c, ok)
  \/ \E ok \in BOOLEAN : handleSaveDone(c, ok)
  \/ \E ok \in BOOLEAN : handleDeleteDone(c, ok)

\* the user actions and the answers of the Content tab
ContentAction(c) ==
  \/ \E fill \in NoteFills, subject \in {NoRow} \cup {x.id : x \in Listed(c, "subjects")} :
       handleAddNote(c, fill, subject)
  \/ \E fill \in VideoFills, subject \in {NoRow} \cup {x.id : x \in Listed(c, "subjects")} :
       handleAddVideo(c, fill, subject)
  \/ \E row \in Listed(c, "notes"), confirmed \in BOOLEAN : handleDeleteNote(c, row, confirmed)
  \/ \E row \in Listed(c, "videos"), confirmed \in BOOLEAN : handleDeleteVideo(c, row, confirmed)

ContentAnswered(c) ==
  \/ \E okS \in BOOLEAN, okN \in BOOLEAN, okV \in BOOLEAN : fetchDataDone(c, okS, okN, okV)
  \/ \E ok \in BOOLEAN, random \in RandomNames : handleFileUploadDone(c, ok, random)
  \/ \E ok \in BOOLEAN : handleAddNoteDone(c, ok)
  \/ \E ok \in BOOLEAN : handleAddVideoDone(c, ok)
  \/ \E ok \in BOOLEAN : handleDeleteNoteDone(c, ok)
  \/ \E ok \in BOOLEAN : handleDeleteVideoDone(c, ok)
\* what the user of session c can do
UserAction(c) ==
  \/ \E email \in TypedEmails : handleSubmit(c, email)
  \/ SessionStart(c)
  \/ ProfileRefresh(c)
  \/ \E path \in Paths : OpenUrl(c, path)
  \/ \E screen \in {"Dashboard"} \cup AdminTabs : Navigate(c, screen)
  \/ handleSignOut(c)
  \/ \E row \in Listed(c, "users") : toggleUserAccess(c, row)
  \/ \E row \in Listed(c, "users") : toggleAdminStatus(c, row)
  \/ SubjectAction(c, {""})
  \/ ContentAction(c)

\* an awaited answer arrives, with or without an error
Answered(c) ==
  \/ getSession(c)
  \/ \E ok \in BOOLEAN : handleSubmitDone(c, ok)
  \/ \E ok \in BOOLEAN : handleSignOutDone(c, ok)
  \/ \E okS \in BOOLEAN, okN \in BOOLEAN, okV \in BOOLEAN : fetchContentDone(c, okS, okN, okV)
  \/ \E ok \in BOOLEAN : fetchUsersDone(c, ok)
  \/ \E ok \in BOOLEAN : toggleUserAccessDone(c, ok)
  \/ \E ok \in BOOLEAN : toggleAdminStatusDone(c, ok)
  \/ SubjectAnswered(c)
  \/ ContentAnswered(c)

\* the administrator (1) or the member without access (2) opens the application
InitApp ==
  /\ authUsers = Cast
  /\ users = [id \in Cast |-> [email |-> id, access |-> (id = 1), is_admin |-> (id = 1)]]
  /\ SampleData
  /\ resp = Answer("init", Anon, NoRow, TRUE, {})
  /\ \E c \in Cast : app = (c :> AppLoading)

NextApp ==
  \/ \E c \in Cast : UserAction(c)
  \/ \E c \in Cast : Answered(c)
  \/ \E c \in Cast : Rendered(c)

SpecApp == InitApp /\ [][NextApp]_vars

\* every request is answered in the end, with or without an error
SpecAppLive == SpecApp /\ WF_vars(\E c \in Cast : Answered(c) \/ Rendered(c))

\* two administrators, each with the Subjects tab open
InitAdmins ==
  /\ authUsers = Cast
  /\ users = [id \in Cast |-> [email |-> id, access |-> TRUE, is_admin |-> TRUE]]
  /\ SampleData
  /\ resp = Answer("init", Anon, NoRow, TRUE, {})
  /\ app = [c \in Cast |->
              MountEffect(Called(Mount([AppLogin EXCEPT !.session = TRUE,
                                                        !.user = ProfileOf(users, c)],
                                       "SubjectManagement"), "Navigate"))]

\* what the two administrators type into the subject form, and the note the
\* second one adds
AdminForms ==
  {[name |-> " Chemistry ", description |-> "Mechanics"], [name |-> "Optics", description |-> ""]}
AdminNote == [title |-> "Calculus Fundamentals", file |-> "calculus.pdf", subject |-> TRUE]

\* both edit, save and delete subjects on the Subjects tab and delete notes on
\* the Content tab; the second one also adds notes. Every request reaches the
\* store.
NextAdmins ==
  \/ \E c \in Cast, screen \in {"SubjectManagement", "ContentManagement"} : Navigate(c, screen)
  \/ \E c \in Cast : \E row \in Listed(c, "subjects") : startEditing(c, row)
  \/ \E c \in Cast, form \in AdminForms : handleSave(c, form.name, form.description)
  \/ \E c \in Cast : \E row \in Listed(c, "subjects") : handleDelete(c, row, TRUE)
  \/ \E subject \in {x.id : x \in Listed(2, "subjects")} : handleAddNote(2, AdminNote, subject)
  \/ \E c \in Cast : \E row \in Listed(c, "notes") : handleDeleteNote(c, row, TRUE)
  \/ \E c \in Cast : fetchSubjectsDone(c, TRUE)
  \/ \E c \in Cast : handleSaveDone(c, TRUE)
  \/ \E c \in Cast : handleDeleteDone(c, TRUE)
  \/ \E c \in Cast : fetchDataDone(c, TRUE, TRUE, TRUE)
  \/ \E random \in RandomNames : handleFileUploadDone(2, TRUE, random)
  \/ handleAddNoteDone(2, TRUE)
  \/ \E c \in Cast : handleDeleteNoteDone(c, TRUE)
  \/ \E c \in Cast : Rendered(c)

SpecAdmins == InitAdmins /\ [][NextAdmins]_vars

\* two administrators, each with the Users tab open; the second has no access
\* yet
InitToggles ==
  /\ authUsers = Cast
  /\ users = [id \in Cast |-> [email |-> id, access |-> (id = 1), is_admin |-> TRUE]]
  /\ SampleData
  /\ resp = Answer("init", Anon, NoRow, TRUE, {})
  /\ app = [c \in Cast |->
              MountEffect(Called(Mount([AppLogin EXCEPT !.session = TRUE,
                                                        !.user = ProfileOf(users, c)],
                                       "UserManagement"), "getSession"))]

\* they press the buttons of the user rows and reload the page; every request
\* reaches the store
NextToggles ==
  \/ \E c \in Cast : \E row \in Listed(c, "users") : toggleUserAccess(c, row)
  \/ \E c \in Cast : \E row \in Listed(c, "users") : toggleAdminStatus(c, row)
  \/ \E c \in Cast : OpenUrl(c, "/admin")
  \/ \E c \in Cast : getSession(c)
  \/ \E c \in Cast : fetchUsersDone(c, TRUE)
  \/ \E c \in Cast : toggleUserAccessDone(c, TRUE)
  \/ \E c \in Cast : toggleAdminStatusDone(c, TRUE)
  \/ \E c \in Cast : Rendered(c)

SpecToggles == InitToggles /\ [][NextToggles]_vars

\* ---------------------------------------------------------------- vocabulary of the claims
HasRow(r) == r \in DOMAIN users
IsAdmin(r) == HasRow(r) /\ users[r].is_admin
HasAccess(r) == HasRow(r) /\ users[r].access

ContentQueries == {"selectNotes", "selectVideos"}
ContentWriteOps ==
  {"insertSubject", "updateSubject", "deleteSubject", "insertNote", "updateNote",
   "deleteNote", "insertVideo", "updateVideo", "deleteVideo"}
AccountWriteOps == {"updateUser", "insertUser", "deleteUser"}
QueryOps == {"selectUsers", "selectSubjects", "selectNotes", "selectVideos"}
RequestOps == QueryOps \cup ContentWriteOps \cup AccountWriteOps

AllSubjectRows ==
  {[id |-> s, name |-> subjects[s].name, description |-> subjects[s].description] :
     s \in DOMAIN subjects}
AllUserRows ==
  {[id |-> id, email |-> users[id].email, access |-> users[id].access,
    is_admin |-> users[id].is_admin] : id \in DOMAIN users}
AllNotesJoined ==
  {[id |-> n, subject_id |-> notes[n].subject_id, title |-> notes[n].title,
    pdf_url |-> notes[n].pdf_url,
    subjects |-> subjects[notes[n].subject_id].name] : n \in DOMAIN notes}
AllVideosJoined ==
  {[id |-> v, subject_id |-> videos[v].subject_id, title |-> videos[v].title,
    subjects |-> subjects[videos[v].subject_id].name] : v \in DOMAIN videos}

C2_FlagsChangeOnlyByAdmin ==
  [][(resp'.op = "updateUser"
        /\ \E id \in DOMAIN users \cap DOMAIN users' :
             \/ users'[id].access # users[id].access
             \/ users'[id].is_admin # users[id].is_admin)
       => IsAdmin(resp'.by)]_vars

\* ---------------------------------------------------------------- C4
\* C4: a request that changes another account's row succeeds only if the
\* requester's is_admin flag is true; for a non-admin requester every other
\* account's row is unchanged.
C4_OthersRowNeedsAdmin ==
  [][(resp'.op = "updateUser" /\ ~IsAdmin(resp'.by))
       => /\ resp'.tgt # resp'.by => ~resp'.ok
          /\ \A id \in DOMAIN users \ {resp'.by} :
               id \in DOMAIN users' /\ users'[id] = users[id]]_vars

C4_Witness ==
  /\ resp.op = "updateUser" /\ resp.col \in {"access", "is_admin"}
  /\ HasRow(resp.by) /\ ~users[resp.by].is_admin
  /\ HasRow(resp.tgt) /\ resp.tgt # resp.by
  /\ ~resp.ok

\* ---------------------------------------------------------------- C6
\* C6: every provisioned identity has exactly one Account row, created with
\* access = false and is_admin = false, and no two rows share an id or an email.
C6_ExactlyOneRowPerIdentity ==
  /\ \A id \in authUsers : Cardinality({x \in DOMAIN users : x = id}) = 1
  /\ \A a, b \in DOMAIN users : a # b => users[a].email # users[b].email
  /\ resp.op = "signUp"
       => HasRow(resp.by) /\ ~users[resp.by].access /\ ~users[resp.by].is_admin

\* ---------------------------------------------------------------- C7
\* C7: there is no reachable state with an authenticated identity and no
\* corresponding Account row.
C7_AuthenticatedHasRow == \A id \in authUsers : HasRow(id)

\* ---------------------------------------------------------------- C9
\* C9: a Note or Video query by an account whose access flag is true returns
\* all existing rows, each joined with the name of its Subject; in particular
\* the query that directly follows the grant does, and so does every later one
\* while the flag stays true.
C9_GrantVisibleOnNextQuery ==
  [][/\ (resp'.op = "selectNotes" /\ HasAccess(resp'.by)) => resp'.rows = AllNotesJoined
     /\ (resp'.op = "selectVideos" /\ HasAccess(resp'.by)) => resp'.rows = AllVideosJoined
     /\ (resp.op = "updateUser" /\ resp.ok /\ resp.col = "access" /\ resp.val
           /\ resp'.op \in ContentQueries /\ resp'.by = resp.tgt)
          => resp'.rows # {}]_vars

C9_Witness ==
  /\ resp.op = "selectNotes"
  /\ HasAccess(resp.by) /\ ~users[resp.by].is_admin
  /\ resp.rows = AllNotesJoined
  /\ \E row \in resp.rows : row.subjects = "Mathematics"

\* ---------------------------------------------------------------- C10
\* C10: a non-admin account reads exactly one Account row, its own; an account
\* whose is_admin flag is true reads every Account row.
C10_AccountRowsVisible ==
  (resp.op = "selectUsers" /\ HasRow(resp.by))
    => resp.rows = IF users[resp.by].is_admin
                   THEN AllUserRows
                   ELSE {row \in AllUserRows : row.id = resp.by}

C10_Witness ==
  /\ resp.op = "selectUsers"
  /\ HasRow(resp.by) /\ ~users[resp.by].is_admin
  /\ Cardinality(resp.rows) = 1
  /\ Cardinality(DOMAIN users) > 1

\* ---------------------------------------------------------------- C8
\* C8: a request without a session, and a request of an authenticated identity
\* that has no Account row, reads no Account, Note or Video row and writes
\* nothing.
C8_OutsidersFailClosed ==
  [][(resp'.op \in RequestOps /\ ~HasRow(resp'.by))
       => /\ users' = users /\ subjects' = subjects /\ notes' = notes /\ videos' = videos
          /\ resp'.op \in ContentWriteOps \cup AccountWriteOps => ~resp'.ok
          /\ resp'.op \in {"selectUsers", "selectNotes", "selectVideos"} => resp'.rows = {}]_vars

C8_Witness ==
  /\ resp.op \in {"selectNotes", "deleteNote"}
  /\ resp.by \in authUsers /\ ~HasRow(resp.by)
  /\ ~(resp.op = "deleteNote" /\ resp.ok)
  /\ resp.rows = {}
  /\ DOMAIN notes # {}

\* ---------------------------------------------------------------- C3
\* C3: every insert, update or delete on a Subject, Note or Video row requested
\* by an account whose is_admin flag is false is denied and leaves the three
\* tables unchanged.
C3_NonAdminWritesDenied ==
  [][(resp'.op \in ContentWriteOps /\ HasRow(resp'.by) /\ ~users[resp'.by].is_admin)
       => /\ ~resp'.ok
          /\ subjects' = subjects /\ notes' = notes /\ videos' = videos]_vars

C3_Witness ==
  /\ resp.op = "deleteSubject" /\ ~resp.ok
  /\ resp.tgt \in DOMAIN subjects
  /\ HasRow(resp.by) /\ ~users[resp.by].is_admin

\* ---------------------------------------------------------------- C5
\* C5: every Note and every Video references a Subject that exists, and a
\* Subject that has just been deleted has no Note and no Video left: a query
\* for them returns nothing.
C5_CascadeNoOrphans ==
  /\ \A n \in DOMAIN notes : notes[n].subject_id \in DOMAIN subjects
  /\ \A v \in DOMAIN videos : videos[v].subject_id \in DOMAIN subjects
  /\ (resp.op = "deleteSubject" /\ resp.ok)
       => /\ resp.tgt \notin DOMAIN subjects
          /\ {row \in SelectNotesRows(resp.by) : row.subject_id = resp.tgt} = {}
          /\ {row \in SelectVideosRows(resp.by) : row.subject_id = resp.tgt} = {}

C5_Witness ==
  /\ resp.op = "deleteSubject" /\ resp.ok
  /\ Cardinality(resp.rows) > 1
  /\ DOMAIN subjects # {}
  /\ DOMAIN notes \cup DOMAIN videos # {}

C18_AccountRowsNeverDeleted ==
  [][/\ DOMAIN users \subseteq DOMAIN users'
     /\ resp'.op = "deleteUser" => ~resp'.ok]_vars

C18_Witness ==
  /\ resp.op = "deleteUser" /\ ~resp.ok
  /\ IsAdmin(resp.by)
  /\ HasRow(resp.tgt) /\ resp.tgt # resp.by

\* C12: when the second administrator's handleAddNote runs while the first one
\* deletes the subject, the insert that arrives after the delete is refused and
\* stores nothing, the insert that arrives before it stores the note, and after
\* every step each note's subject exists (the delete takes the notes with it).
C12_DeleteRacesInsert ==
  [][/\ \A n \in DOMAIN notes' : notes'[n].subject_id \in DOMAIN subjects'
     /\ (Awaits(2, "handleAddNote") /\ ~Awaits(2, "handleAddNote")') =>
          LET s == app[2].selectedSubject IN
            IF s \in DOMAIN subjects
            THEN /\ resp'.ok /\ app'[2].outcome = "ok"
                 /\ \E n \in DOMAIN notes' \ DOMAIN notes : notes'[n].subject_id = s
            ELSE /\ ~resp'.ok /\ app'[2].outcome = "error"
                 /\ notes' = notes]_vars
\* the insert arrived after the other administrator's delete of its subject
C12_Witness ==
  /\ resp.op = "insertNote" /\ ~resp.ok /\ resp.by = 2 /\ resp.tgt \notin DOMAIN subjects
  /\ app[2].did = "handleAddNote" /\ app[2].outcome = "error"
  /\ app[1].did = "handleDelete" /\ app[1].outcome = "ok"
  /\ \A n \in DOMAIN notes : notes[n].subject_id # resp.tgt

\* the request op as a screen the profile `user` can open would send it: the
\* content reads by Dashboard's effect and by the admin tabs, everything on
\* users and every content write by the admin tabs only
ScreensSend(op, user) ==
  CASE op \in {"selectSubjects", "selectNotes", "selectVideos"} ->
         DashboardFetches(user) \/ "ContentManagement" \in Routes(user)
    [] op \in {"selectUsers", "updateUser"} -> "UserManagement" \in Routes(user)
    [] op \in {"insertSubject", "updateSubject", "deleteSubject"} ->
         "SubjectManagement" \in Routes(user)
    [] op \in {"insertNote", "updateNote", "deleteNote",
               "insertVideo", "updateVideo", "deleteVideo"} ->
         "ContentManagement" \in Routes(user)
    [] OTHER -> FALSE
\* what a request obtained: rows other than the requester's own profile, or a
\* write that was applied
Obtained(a) ==
  IF a.op \in {"selectUsers", "selectSubjects", "selectNotes", "selectVideos"}
  THEN \E row \in a.rows : a.op = "selectUsers" => row.id # a.by
  ELSE a.ok

\* C13: whatever the store gives to a request sent directly (rows returned, a
\* write applied), a screen that the requester's stored flags open sends that
\* request too.
C13_NothingBeyondTheScreens ==
  [][(resp' # resp /\ resp'.by \in authUsers /\ resp'.op \notin {"signUp", "signIn"}
      /\ Obtained(resp'))
       => ScreensSend(resp'.op, ProfileOf(users, resp'.by))]_vars

\* C14: when a handler has ended on a failed request (an error answer, or a
\* write that the store applied to no row), the screen shows an error message.
C14_FailuresAreShown ==
  \A c \in DOMAIN app :
    app[c].outcome \in {"error", "norow"} => app[c].message = ErrorSending

\* a busy flag of session c is up, or one of its handlers awaits an answer
Busy(c) ==
  c \in DOMAIN app /\ (app[c].loading \/ app[c].uploadingFile \/ app[c].pc # "idle")
\* no busy flag is up and the next handler can run
Usable(c) ==
  c \in DOMAIN app /\ ~app[c].loading /\ ~app[c].uploadingFile /\ app[c].pc = "idle"

\* C15: whenever a request is in flight or a busy flag (loading of the
\* component on screen, uploadingFile) is up, the session later reaches a state
\* with every busy flag down and no handler running, whether the answers were
\* data or errors.
C15_BusyFlagsComeDown == \A c \in Cast : Busy(c) ~> Usable(c)
\* a failed upload has ended with the flags down
C15_Witness ==
  \E c \in DOMAIN app :
    /\ Usable(c) /\ app[c].outcome = "error"
    /\ app[c].did = "handleAddNote" /\ app[c].log = <<"storage.upload">>

\* C16: since the user's last action, no request has been sent twice, and once
\* a request has failed the handler is over: nothing is in flight.
C16_NoRequestSentTwice ==
  \A c \in DOMAIN app :
    /\ \A i, j \in DOMAIN app[c].log : app[c].log[i] = app[c].log[j] => i = j
    /\ app[c].outcome = "error" => app[c].pc = "idle"
\* a toggle has failed and its update was sent once
C16_Witness ==
  \E c \in DOMAIN app :
    /\ app[c].did = "toggleAdminStatus" /\ app[c].outcome = "error"
    /\ app[c].log = <<"users.update">>

\* the answer to the save or delete that session c awaits has arrived
AnsweredTo(c, h) == Awaits(c, h) /\ ~Awaits(c, h)'

ContentQueried(c) ==
  \E i \in DOMAIN app[c].log : app[c].log[i] \in {"subjects.select", "notes.select", "videos.select"}

\* C19: on Dashboard, a profile with access false has sent no content query,
\* awaits none and sees "Access Pending"; a session that has sent a content
\* query from Dashboard has sent all three and its profile has access true.
C19_NoAccessNoContentQuery ==
  \A c \in DOMAIN app :
    app[c].screen = "Dashboard" =>
      /\ ~app[c].user.access =>
           /\ ~ContentQueried(c) /\ app[c].pc # "fetchContent"
           /\ DashboardView(app[c]) = "Access Pending"
      /\ ContentQueried(c) => app[c].user.access /\ app[c].log = ContentRequests
\* the member without access has signed in and sees Dashboard
C19_Witness ==
  \E c \in DOMAIN app :
    /\ app[c].screen = "Dashboard" /\ app[c].did = "SessionStart"
    /\ app[c].user.id = c /\ ~app[c].user.access /\ ~users[c].access
    /\ app[c].log = << >> /\ DashboardView(app[c]) = "Access Pending"

\* the input that handler h was called with, as the session holds it, misses
\* a required field
MissingField(a, h) ==
  CASE h = "handleSave" -> a.editingSubject.open /\ a.editingSubject.name \in {"", " "}
    [] h = "handleAddNote" ->
         a.newNote.title = "" \/ a.newNote.file = "" \/ a.selectedSubject = NoRow
    [] h = "handleAddVideo" ->
         a.newVideo.title = "" \/ a.newVideo.youtube_url = "" \/ a.selectedSubject = NoRow
    [] h = "handleSubmit" -> a.email = ""
    [] OTHER -> FALSE

\* C20: a call of handleSave, handleAddNote, handleAddVideo or handleSubmit
\* with a required field missing sends no request and starts no wait, and the
\* step leaves the store and the lists of the session as they were.
C20_InvalidInputSendsNothing ==
  [][\A c \in DOMAIN app :
       (Idle(c) /\ MissingField(app'[c], app'[c].did)) =>
         /\ app'[c].log = << >> /\ app'[c].pc = "idle"
         /\ ~app'[c].loading /\ ~app'[c].uploadingFile
         /\ store' = store
         /\ \A list \in {"users", "subjects", "notes", "videos"} : app'[c][list] = app[c][list]
    ]_vars
\* handleSave was called with a name of one blank and has ended
C20_Witness ==
  \E c \in DOMAIN app :
    /\ app[c].did = "handleSave" /\ app[c].editingSubject.open
    /\ app[c].editingSubject.name = " "
    /\ app[c].log = << >> /\ app[c].pc = "idle"

\* ---------------------------------------------------------------- C21
\* C21: an Account row comes into existence only in the step that provisions
\* its identity (the sign-up and its trigger), and with both flags false.
C21_RowsCreatedOnlyByProvisioning ==
  [][\A id \in DOMAIN users' \ DOMAIN users :
       /\ resp'.op = "signUp" /\ resp'.by = id
       /\ ~users'[id].access /\ ~users'[id].is_admin]_vars

\* ---------------------------------------------------------------- C22
\* request x was sent before request y
Before(log, x, y) ==
  \E i, j \in 1..Len(log) : i < j /\ log[i] = x /\ log[j] = y

\* the step in which handleAddNote of session c ends in its catch block
AddNoteFails(c) ==
  /\ Awaits(c, "handleFileUpload") \/ Awaits(c, "handleAddNote")
  /\ app'[c].pc = "idle" /\ app'[c].outcome = "error"

\* C22: a Note row is inserted only after its file was stored, and its pdf_url
\* is the public URL returned for that upload; when the upload or the insert
\* fails the notes table is unchanged and the add form stays open with the
\* title, the file and the subject that were entered.
C22_NoteOnlyAfterUpload ==
  [][/\ \A c \in DOMAIN app :
          Awaits(c, "handleFileUpload") /\ app'[c].pc = "handleAddNote"
            => /\ \E path \in pdfs' \ pdfs : app'[c].pdfUrl = PublicUrl(path)
               /\ notes' = notes
     /\ \A n \in DOMAIN notes' \ DOMAIN notes :
          \E c \in DOMAIN app :
            /\ Awaits(c, "handleAddNote")
            /\ Before(app[c].log, "storage.upload", "notes.insert")
            /\ app[c].pdfUrl \in {PublicUrl(path) : path \in pdfs}
            /\ notes'[n] = [subject_id |-> app[c].selectedSubject,
                            title |-> app[c].newNote.title,
                            pdf_url |-> app[c].pdfUrl]
     /\ \A c \in DOMAIN app :
          AddNoteFails(c)
            => /\ notes' = notes
               /\ app'[c].showAddNote /\ app[c].showAddNote
               /\ app'[c].newNote = app[c].newNote
               /\ app'[c].selectedSubject = app[c].selectedSubject]_vars

\* a Note created by the form is stored with the URL of a stored file
C22_Witness ==
  \E n \in DOMAIN notes : \E path \in pdfs : notes[n].pdf_url = PublicUrl(path)

\* ---------------------------------------------------------------- C23
\* C23: while the auth state loads only the spinner is rendered and without a
\* session only Login; Dashboard and AdminPanel are rendered only with a
\* session, AdminPanel only on /admin for a user the admin route admits, and
\* the Admin link only for a user whose is_admin flag is true. The component
\* whose state the session holds is one that is rendered.
C23_RenderedByAuthAndRole ==
  \A c \in DOMAIN app :
    LET a == app[c]
        shown == AppContent(a) IN
      /\ a.authLoading => shown = {"spinner"}
      /\ ~a.authLoading /\ ~a.session => shown = {"Login"}
      /\ shown \cap {"Dashboard", "AdminPanel"} # {} => a.session /\ ~a.authLoading
      /\ "AdminPanel" \in shown => a.path = "/admin" /\ a.user.is_admin
      /\ "AdminLink" \in shown => a.user.is_admin
      /\ ~a.authLoading =>
           /\ a.screen = "Login" <=> "Login" \in shown
           /\ a.screen = "Dashboard" <=> "Dashboard" \in shown
           /\ a.screen \in AdminTabs <=> "AdminPanel" \in shown

\* a signed-in user who is no administrator has opened /admin and is shown
\* neither AdminPanel nor the Admin link
C23_Witness ==
  \E c \in DOMAIN app :
    /\ app[c].session /\ ~app[c].authLoading /\ app[c].path = "/admin"
    /\ ~app[c].user.is_admin
    /\ AppContent(app[c]) \cap {"AdminPanel", "AdminLink", "Login", "spinner"} = {}

\* ---------------------------------------------------------------- C24
\* the handlers of C24 and the step in which one of them ends with an error
ListWriters ==
  {"toggleUserAccess", "toggleAdminStatus", "handleSave", "handleDelete",
   "handleDeleteNote", "handleDeleteVideo"}
EndsWithError(c, h) ==
  Awaits(c, h) /\ app'[c].pc = "idle" /\ app'[c].outcome = "error"

\* C24: when the request of toggleUserAccess, toggleAdminStatus, handleSave,
\* handleDelete, handleDeleteNote or handleDeleteVideo is answered with an
\* error, the lists of the component are unchanged and so is the store; after
\* handleSave the form is still open, editingSubject and isAdding unchanged.
C24_ErrorLeavesListAndForm ==
  [][\A c \in DOMAIN app : \A h \in ListWriters :
       EndsWithError(c, h)
         => /\ app'[c].users = app[c].users /\ app'[c].subjects = app[c].subjects
            /\ app'[c].notes = app[c].notes /\ app'[c].videos = app[c].videos
            /\ <<users, subjects, notes, videos>>' = <<users, subjects, notes, videos>>
            /\ h = "handleSave"
                 => /\ app[c].editingSubject.open
                    /\ app'[c].editingSubject = app[c].editingSubject
                    /\ app'[c].isAdding = app[c].isAdding]_vars

\* a save was answered with an error and the form is open with the typed name
C24_Witness ==
  \E c \in DOMAIN app :
    /\ app[c].did = "handleSave" /\ app[c].pc = "idle" /\ app[c].outcome = "error"
    /\ app[c].editingSubject.open /\ app[c].editingSubject.name = " Chemistry "

\* ---------------------------------------------------------------- C25
\* the id of the subject that the handleSave awaited by session c saves
SavedId(c) ==
  IF app[c].editingSubject.id # NoRow THEN app[c].editingSubject.id ELSE resp'.tgt

\* C25: after a successful handleSave the entry of the saved subject in the
\* local list has the name and the description of the stored row, for a create
\* and for an update (an empty description and NULL are taken as the same).
C25_LocalEntryEqualsStoredRow ==
  [][\A c \in DOMAIN app :
       Awaits(c, "handleSave") /\ app'[c].pc = "idle" /\ app'[c].outcome = "ok"
         => /\ SavedId(c) \in DOMAIN subjects'
            /\ \A x \in app'[c].subjects :
                 x.id = SavedId(c)
                   => /\ x.name = subjects'[x.id].name
                      /\ OrEmpty(x.description) = OrEmpty(subjects'[x.id].description)]_vars

\* ---------------------------------------------------------------- C26
\* the step in which the toggle h of session c ends without an error
ToggleSucceeds(c, h) ==
  Awaits(c, h) /\ app'[c].pc = "idle" /\ app'[c].outcome # "error"

\* C26: a toggle writes the negation of the value the caller's list held when
\* the button was pressed; after a toggle that ended without an error the
\* stored flag is that negation, whatever another administrator wrote in
\* between, and the caller's list shows the stored flag.
C26_ToggleWritesWhatTheButtonShowed ==
  [][\A c \in DOMAIN app :
       /\ ToggleSucceeds(c, "toggleUserAccess")
            => /\ users'[app[c].arg.id].access = ~app[c].arg.flag
               /\ \A u \in app'[c].users :
                    u.id = app[c].arg.id => u.access = users'[u.id].access
       /\ ToggleSucceeds(c, "toggleAdminStatus")
            => /\ users'[app[c].arg.id].is_admin = ~app[c].arg.flag
               /\ \A u \in app'[c].users :
                    u.id = app[c].arg.id => u.is_admin = users'[u.id].is_admin]_vars

\* ---------------------------------------------------------------- C27
\* C27: there is always an account whose is_admin flag is true.
C27_AnAdminRemains == \E id \in DOMAIN users : users[id].is_admin

\* ---------------------------------------------------------------- C28
\* session c takes the user action h in this step
Starts(c, h) == app[c].did = "" /\ app'[c].did = h
\* the idle state of the subject form
FormIdle(a) == a.editingSubject = NoForm /\ ~a.isAdding

\* C28 (states): isAdding implies an open form without an id, and at most one
\* row of the list is the subject under edit.
C28_FormStates ==
  \A c \in DOMAIN app :
    LET a == app[c] IN
      /\ a.isAdding => a.editingSubject.open /\ a.editingSubject.id = NoRow
      /\ ~a.editingSubject.open => FormIdle(a)
      /\ Cardinality({x \in a.subjects :
                        a.editingSubject.open /\ x.id = a.editingSubject.id}) <= 1

\* C28: the form states above hold; no add, edit or delete starts while a
\* subject is under edit; cancelEditing returns to the idle state and sends
\* nothing; a handleSave that ends without an error returns to the idle state.
C28_OneSubjectUnderEdit ==
  [][/\ C28_FormStates /\ C28_FormStates'
     /\ \A c \in DOMAIN app :
          /\ \A h \in {"startAdding", "startEditing", "handleDelete"} :
               Starts(c, h) => FormIdle(app[c])
          /\ Starts(c, "cancelEditing")
               => /\ FormIdle(app'[c]) /\ app'[c].pc = "idle" /\ app'[c].log = << >>
                  /\ store' = store
          /\ Awaits(c, "handleSave") /\ app'[c].pc = "idle" /\ app'[c].outcome # "error"
               => FormIdle(app'[c])]_vars

\* an open form was cancelled: the form is idle again and nothing was sent
C28_Witness ==
  \E c \in DOMAIN app :
    /\ app[c].did = "cancelEditing" /\ app[c].log = << >> /\ FormIdle(app[c])
    /\ app[c].screen = "SubjectManagement"

\* ---------------------------------------------------------------- C29
\* the store applies a delete of kind op in this step
Deletes(op) == resp' # resp /\ resp'.op = op /\ resp'.ok
\* table g is table f without the rows `gone`, every other row as it was
Without(f, g, gone) ==
  DOMAIN g = DOMAIN f \ gone /\ \A x \in DOMAIN g : g[x] = f[x]

====
